---- MODULE Spec2Model ----
(***************************************************************************)
(* Frame extraction for SAM2: DataSynthesizing/make_frames_for_SAM2.py.    *)
(*                                                                         *)
(* The tool locates the episode videos of a dataset cache (find_videos),   *)
(* hands them to a multiprocessing pool (main, pool.map) and each pool     *)
(* worker extracts one video into a sibling directory of JPEG frames with  *)
(* ffmpeg (_extract_worker).  The file system is the only shared state.    *)
(*                                                                         *)
(* A path is a tuple of names relative to the dataset root; a name is a    *)
(* string.  The camera key is <<>> for None and <<s>> for the string s.    *)
(***************************************************************************)
EXTENDS Integers, Sequences, FiniteSets, TLC

\* ------------------------------------------------------------------ bounds

\* Frames of the longest episode video of the fixture.
MaxFrames == 3
\* Invocations of the tool by one user, one after the other.
MaxRuns == 2
\* Decoder invocations that exit non-zero, over the whole history.
MaxFailures == 1

\* ----------------------------------------------------------------- strings

StartsWith(s, pre) == Len(pre) <= Len(s) /\ SubSeq(s, 1, Len(pre)) = pre

\* str.endswith
EndsWith(s, suf) ==
    Len(suf) <= Len(s) /\ SubSeq(s, Len(s) - Len(suf) + 1, Len(s)) = suf

\* fnmatch of a pattern "<pre>*<suf>", the only shape the tool globs with
GlobMatch(name, pre, suf) ==
    /\ Len(pre) + Len(suf) <= Len(name)
    /\ StartsWith(name, pre)
    /\ EndsWith(name, suf)

\* Path.name, Path.parent, Path.stem
Name(path) == path[Len(path)]
Parent(path) == SubSeq(path, 1, Len(path) - 1)
Stem(path) ==
    LET n == Name(path)
        dots == {i \in 2..Len(n) : SubSeq(n, i, i) = "."}
    IN  IF dots = {} THEN n
        ELSE SubSeq(n, 1, (CHOOSE i \in dots : \A j \in dots : j <= i) - 1)

RECURSIVE ZeroPad(_, _)
ZeroPad(s, width) == IF Len(s) >= width THEN s ELSE ZeroPad("0" \o s, width)

\* ffmpeg's expansion of the output pattern "%05d.jpg" for frame number n
FrameFile(n) == ZeroPad(ToString(n), 5) \o ".jpg"

\* Frames numbered from 1, as ffmpeg does without -start_number.
StartNumberOne == 2 - 1

\* ffmpeg -start_number
StartNumber == 0

\* ----------------------------------------------------------- the data set

\* The dataset cache on disk before the tool ever ran: every directory and
\* file under the dataset root, in the order a directory listing yields them.
\* Besides the episode videos of two cameras in two chunks it holds entries
\* the globs must leave out.
Fixture ==
    << <<"meta">>,
       <<"videos">>,
       <<"videos", "chunk-000">>,
       <<"videos", "chunk-000", "observation.images.phone">>,
       <<"videos", "chunk-000", "observation.images.phone", "episode_000000.mp4">>,
       <<"videos", "chunk-000", "observation.images.phone", "episode_000001.mp4">>,
       <<"videos", "chunk-000", "observation.images.phone", "episode_000001.json">>,
       <<"videos", "chunk-000", "observation.images.laptop">>,
       <<"videos", "chunk-000", "observation.images.laptop", "episode_000000.mp4">>,
       <<"videos", "chunk-000", "observation.depth.phone">>,
       <<"videos", "chunk-000", "observation.depth.phone", "episode_000000.mp4">>,
       <<"videos", "chunk-001">>,
       <<"videos", "chunk-001", "observation.images.phone">>,
       <<"videos", "chunk-001", "observation.images.phone", "episode_000002.mp4">>,
       <<"videos", "chunk-001", "observation.images.phone", "episode_000003.mp4">>,
       <<"videos", "chunk-001", "observation.images.phone", "clip_000002.mp4">>,
       <<"videos", "backup">>,
       <<"videos", "backup", "observation.images.phone">>,
       <<"videos", "backup", "observation.images.phone", "episode_000009.mp4">> >>

FixturePaths == {Fixture[i] : i \in 1..Len(Fixture)}

\* Number of frames the decoder finds in a video.
FrameCount(mp4) ==
    IF mp4 = <<"videos", "chunk-000", "observation.images.phone", "episode_000000.mp4">>
    THEN MaxFrames
    ELSE IF Parent(mp4) = <<"videos", "chunk-000", "observation.images.laptop">>
         THEN 2
         ELSE 1


\* ------------------------------------------------------------------ state

\* The two users that may run the tool against the same dataset root.
Procs == {1, 2}

VARIABLES
    frames,     \* the frame directories on disk: out_dir -> its files
    pc,         \* per invocation: where main() is
    args,       \* per invocation: the parsed command line
    mp4s,       \* per invocation: list(find_videos(...))
    task,       \* per invocation, per list index: where _extract_worker is
    chunkSt,    \* per invocation, per chunk of pool.map: queued, running, done
    value,      \* per invocation: MapResult._value, the result list being filled
    exc,        \* per invocation: the exception pool.map stored or main raised
    frame_dirs, \* per invocation: what pool.map returned to main
    runs,       \* per invocation: how many times the tool was started
    failures,   \* decoder invocations that exited non-zero so far
    calls       \* per video: the record of every finished _extract_worker call

vars == <<frames, pc, args, mp4s, task, chunkSt, value, exc, frame_dirs,
          runs, failures, calls>>

NoPath == <<>>
NoExc == [type |-> "none", mp4 |-> NoPath]
NoArgs == [camera |-> <<>>, quality |-> 0, num_workers |-> 0, listing |-> "asc"]

\* ------------------------------------------------------------ file system

RECURSIVE SetToSeq(_)
SetToSeq(S) ==
    IF S = {} THEN <<>>
    ELSE LET x == CHOOSE y \in S : TRUE IN <<x>> \o SetToSeq(S \ {x})

Reverse(s) == [i \in 1..Len(s) |-> s[Len(s) + 1 - i]]

\* The entries of a directory, in the order the file system yields them: the
\* order is the file system's own (ascending or descending here), and the
\* frame directories earlier runs created are among the entries.
ListDir(dir, listing) ==
    LET static == SelectSeq(Fixture, LAMBDA q : Len(q) = Len(dir) + 1 /\ Parent(q) = dir)
        made == SetToSeq({q \in DOMAIN frames : Len(q) = Len(dir) + 1 /\ Parent(q) = dir})
        all == static \o made
    IN  IF listing = "asc" THEN all ELSE Reverse(all)

\* Path.glob("<pre>*<suf>")
Glob(dir, pre, suf, listing) ==
    SelectSeq(ListDir(dir, listing), LAMBDA q : GlobMatch(Name(q), pre, suf))

RECURSIVE Concat(_)
Concat(ss) == IF ss = <<>> THEN <<>> ELSE Head(ss) \o Concat(Tail(ss))

\* The camera key compared with the whole camera name, not with its end.
SkipsCameraExact(cam_dir, camera_key) ==
    /\ camera_key # <<>>
    /\ camera_key[1] # ""
    /\ Name(cam_dir) # "observation.images." \o camera_key[1]

\* `if camera_key and not cam_dir.name.endswith(camera_key): continue`
SkipsCamera(cam_dir, camera_key) ==
    /\ camera_key # <<>>
    /\ camera_key[1] # ""
    /\ ~EndsWith(Name(cam_dir), camera_key[1])

find_videos(camera_key, listing) ==
    LET videos_root == <<"videos">>
        chunk_dirs == Glob(videos_root, "chunk-", "", listing)
        ofCam(cam_dir) ==
            IF SkipsCamera(cam_dir, camera_key) THEN <<>>
            ELSE Glob(cam_dir, "episode_", ".mp4", listing)
        ofChunk(chunk_dir) ==
            LET cam_dirs == Glob(chunk_dir, "observation.images.", "", listing)
            IN  Concat([i \in 1..Len(cam_dirs) |-> ofCam(cam_dirs[i])])
    IN  Concat([i \in 1..Len(chunk_dirs) |-> ofChunk(chunk_dirs[i])])

\* out_dir = mp4_path.parent / f"{mp4_path.stem}_frames"
OutDir(mp4_path) == Parent(mp4_path) \o <<Stem(mp4_path) \o "_frames">>

\* `out_dir.exists()`
Exists(out_dir) == out_dir \in DOMAIN frames

\* The check without its second operand: an existing directory is done.
AnyDirNonEmpty(out_dir) == TRUE

\* The check that never finds a frame: every call extracts again.
NeverNonEmpty(out_dir) == FALSE

\* `any(out_dir.iterdir())`
NonEmpty(out_dir) == frames[out_dir] # {}

\* ------------------------------------------------------------- pool.map

\* Pool._map_async: chunksize, extra = divmod(len(iterable), len(pool) * 4)
ChunkSize(n, workers) ==
    IF n % (workers * 4) = 0 THEN n \div (workers * 4) ELSE n \div (workers * 4) + 1

NumChunks(n, workers) ==
    LET cs == ChunkSize(n, workers)
    IN  IF n = 0 THEN 0 ELSE IF n % cs = 0 THEN n \div cs ELSE n \div cs + 1

ChunkOf(p, i) == (i - 1) \div ChunkSize(Len(mp4s[p]), args[p].num_workers) + 1
ChunkFirst(p, c) == (c - 1) * ChunkSize(Len(mp4s[p]), args[p].num_workers) + 1
ChunkLast(p, c) ==
    LET e == c * ChunkSize(Len(mp4s[p]), args[p].num_workers)
    IN  IF e > Len(mp4s[p]) THEN Len(mp4s[p]) ELSE e

Running(p) == {c \in 1..Len(chunkSt[p]) : chunkSt[p][c] = "running"}


\* ------------------------------------------------------------ command line

\* camera: <<>> is the default None.  quality: the default is 2.
Cameras == {<<>>, <<"">>, <<"phone">>, <<"laptop">>, <<"one">>, <<"wrist">>}
Listings == {"asc", "desc"}

\* What one user runs the tool with: the whole data set and an unknown
\* camera with one worker, one camera's videos with two and with eight.
UserArgs ==
    [camera : {<<>>, <<"wrist">>}, quality : {2}, num_workers : {1}, listing : {"asc"}]
    \cup [camera : {<<"phone">>}, quality : {2}, num_workers : {2}, listing : {"desc"}]
    \cup [camera : {<<"laptop">>}, quality : {5}, num_workers : {8}, listing : {"desc"}]

\* What the tool is run with where only the listing is looked at.
LocateArgs ==
    [camera : Cameras, quality : {2}, num_workers : {1}, listing : Listings]

\* What two users run the tool with at the same time.
RaceArgs ==
    [camera : {<<"laptop">>}, quality : {2, 5}, num_workers : {2}, listing : {"asc"}]

\* ------------------------------------------------------------------- Init

Init ==
    /\ frames = [d \in {} |-> {}]
    /\ pc = [p \in Procs |-> "idle"]
    /\ args = [p \in Procs |-> NoArgs]
    /\ mp4s = [p \in Procs |-> <<>>]
    /\ task = [p \in Procs |-> <<>>]
    /\ chunkSt = [p \in Procs |-> <<>>]
    /\ value = [p \in Procs |-> <<>>]
    /\ exc = [p \in Procs |-> NoExc]
    /\ frame_dirs = [p \in Procs |-> <<>>]
    /\ runs = [p \in Procs |-> 0]
    /\ failures = 0
    /\ calls = [m \in FixturePaths |-> <<>>]

\* ------------------------------------------------------------------- main

\* main() without its check of the list.
NoVideosNever(found) == FALSE

\* `if not mp4s:`
NoVideos(found) == found = <<>>

\* main(), lines 82-95: parse the command line, list the videos, and raise
\* when there is none.  The user starts the tool anew once a run has ended.
Main(p, a, limit) ==
    /\ pc[p] \in {"idle", "done", "failed"}
    /\ runs[p] < limit
    /\ runs' = [runs EXCEPT ![p] = @ + 1]
    /\ args' = [args EXCEPT ![p] = a]
    /\ LET found == find_videos(a.camera, a.listing)
       IN  /\ mp4s' = [mp4s EXCEPT ![p] = found]
           /\ IF NoVideos(found)
              THEN /\ pc' = [pc EXCEPT ![p] = "failed"]
                   /\ exc' = [exc EXCEPT ![p] = [type |-> "RuntimeError", mp4 |-> NoPath]]
              ELSE /\ pc' = [pc EXCEPT ![p] = "found"]
                   /\ exc' = [exc EXCEPT ![p] = NoExc]
    /\ task' = [task EXCEPT ![p] = <<>>]
    /\ chunkSt' = [chunkSt EXCEPT ![p] = <<>>]
    /\ value' = [value EXCEPT ![p] = <<>>]
    /\ frame_dirs' = [frame_dirs EXCEPT ![p] = <<>>]
    /\ UNCHANGED <<frames, failures, calls>>

\* main(), lines 100-102: pool.map cuts the list into chunks and queues them.
PoolMap(p) ==
    /\ pc[p] = "found"
    /\ pc' = [pc EXCEPT ![p] = "map"]
    /\ task' = [task EXCEPT ![p] =
                  [i \in 1..Len(mp4s[p]) |->
                     [pc |-> "queued", written |-> 0, decoded |-> FALSE, result |-> NoPath]]]
    /\ chunkSt' = [chunkSt EXCEPT ![p] =
                     [c \in 1..NumChunks(Len(mp4s[p]), args[p].num_workers) |-> "queued"]]
    /\ value' = [value EXCEPT ![p] = [i \in 1..Len(mp4s[p]) |-> NoPath]]
    /\ UNCHANGED <<frames, args, mp4s, exc, frame_dirs, runs, failures, calls>>

\* An idle pool worker takes the next chunk off the task queue and calls
\* _extract_worker on its first item.
TakeChunk(p, c) ==
    /\ pc[p] = "map"
    /\ c \in 1..Len(chunkSt[p])
    /\ chunkSt[p][c] = "queued"
    /\ \A d \in 1..(c - 1) : chunkSt[p][d] # "queued"
    /\ Cardinality(Running(p)) < args[p].num_workers
    /\ chunkSt' = [chunkSt EXCEPT ![p][c] = "running"]
    /\ task' = [task EXCEPT ![p][ChunkFirst(p, c)].pc = "exists"]
    /\ UNCHANGED <<frames, pc, args, mp4s, value, exc, frame_dirs, runs, failures, calls>>

\* Results kept in the order the chunks are handed back (imap_unordered).
SetSuccessInArrivalOrder(p, c, results) ==
    LET free == {k \in 1..Len(value[p]) : value[p][k] = NoPath}
        first == CHOOSE k \in free : \A j \in free : k <= j
        n == ChunkLast(p, c) - ChunkFirst(p, c) + 1
    IN  IF exc[p] = NoExc
        THEN [k \in 1..Len(value[p]) |->
                IF k \in first..(first + n - 1)
                THEN results[ChunkFirst(p, c) + (k - first)].result
                ELSE value[p][k]]
        ELSE value[p]

\* MapResult._set for a chunk that succeeded: its results fill their slice
\* of the list, unless an exception is already stored.
SetSuccess(p, c, results) ==
    IF exc[p] = NoExc
    THEN [k \in 1..Len(value[p]) |->
            IF k \in ChunkFirst(p, c)..ChunkLast(p, c) THEN results[k].result ELSE value[p][k]]
    ELSE value[p]

\* _extract_worker returns out_dir: the worker goes on with the next item
\* of its chunk, or hands the finished chunk back.
Return(p, i, out_dir) ==
    LET c == ChunkOf(p, i)
        done == [task[p] EXCEPT ![i].pc = "returned", ![i].result = out_dir]
    IN  /\ IF i = ChunkLast(p, c)
           THEN /\ task' = [task EXCEPT ![p] = done]
                /\ chunkSt' = [chunkSt EXCEPT ![p][c] = "done"]
                /\ value' = [value EXCEPT ![p] = SetSuccess(p, c, done)]
           ELSE /\ task' = [task EXCEPT ![p] = [done EXCEPT ![i + 1].pc = "exists"]]
                /\ UNCHANGED <<chunkSt, value>>
        /\ calls' = [calls EXCEPT ![mp4s[p][i]] =
                       Append(@, [ok |-> TRUE, decoded |-> task[p][i].decoded,
                                  written |-> task[p][i].written,
                                  dir |-> out_dir, files |-> frames[out_dir]])]

\* subprocess.run(cmd, check=True) raises CalledProcessError: the rest of
\* the chunk is not run, and MapResult._set stores the first exception only.
Raise(p, i, out_dir) ==
    LET c == ChunkOf(p, i)
    IN  /\ task' = [task EXCEPT ![p][i].pc = "raised"]
        /\ chunkSt' = [chunkSt EXCEPT ![p][c] = "done"]
        /\ IF exc[p] = NoExc
           THEN /\ exc' = [exc EXCEPT ![p] =
                             [type |-> "CalledProcessError", mp4 |-> mp4s[p][i]]]
                /\ value' = [value EXCEPT ![p] = <<>>]
           ELSE UNCHANGED <<exc, value>>
        /\ calls' = [calls EXCEPT ![mp4s[p][i]] =
                       Append(@, [ok |-> FALSE, decoded |-> task[p][i].decoded,
                                  written |-> task[p][i].written,
                                  dir |-> out_dir, files |-> frames[out_dir]])]


\* -------------------------------------------------------- _extract_worker

At(p, i, where) ==
    /\ pc[p] = "map"
    /\ i \in 1..Len(task[p])
    /\ task[p][i].pc = where

\* line 62, left operand: out_dir.exists()
PathExists(p, i) ==
    /\ At(p, i, "exists")
    /\ task' = [task EXCEPT ![p][i].pc =
                  IF Exists(OutDir(mp4s[p][i])) THEN "iterdir" ELSE "mkdir"]
    /\ UNCHANGED <<frames, pc, args, mp4s, chunkSt, value, exc, frame_dirs,
                   runs, failures, calls>>

\* line 62, right operand, and line 63: any(out_dir.iterdir()), and with it
\* `return out_dir`
IterDir(p, i) ==
    /\ At(p, i, "iterdir")
    /\ IF NonEmpty(OutDir(mp4s[p][i]))
       THEN /\ Return(p, i, OutDir(mp4s[p][i]))
            /\ UNCHANGED exc
       ELSE /\ task' = [task EXCEPT ![p][i].pc = "mkdir"]
            /\ UNCHANGED <<chunkSt, value, exc, calls>>
    /\ UNCHANGED <<frames, pc, args, mp4s, frame_dirs, runs, failures>>

\* lines 65-74: out_dir.mkdir(exist_ok=True), and subprocess.run starts the
\* decoder, which has written nothing yet
Mkdir(p, i) ==
    /\ At(p, i, "mkdir")
    /\ frames' = IF Exists(OutDir(mp4s[p][i])) THEN frames
                 ELSE frames @@ (OutDir(mp4s[p][i]) :> {})
    /\ task' = [task EXCEPT ![p][i].pc = "ffmpeg", ![p][i].decoded = TRUE]
    /\ UNCHANGED <<pc, args, mp4s, chunkSt, value, exc, frame_dirs, runs,
                   failures, calls>>

\* A decoder that names a frame after the number of files it finds.
WriteFrameNextFree(dir, n, quality) ==
    dir \cup {[name |-> FrameFile(StartNumber + Cardinality(dir)), q |-> quality]}

\* The file the decoder writes for the n-th frame (n from 0) it decodes: an
\* existing file of that name is overwritten.
WriteFrame(dir, n, quality) ==
    LET f == FrameFile(StartNumber + n)
    IN  {g \in dir : g.name # f} \cup {[name |-> f, q |-> quality]}

\* The decoder writes the next frame.
DecoderWrite(p, i) ==
    /\ At(p, i, "ffmpeg")
    /\ task[p][i].written < FrameCount(mp4s[p][i])
    /\ frames' = [frames EXCEPT ![OutDir(mp4s[p][i])] =
                    WriteFrame(@, task[p][i].written, args[p].quality)]
    /\ task' = [task EXCEPT ![p][i].written = @ + 1]
    /\ UNCHANGED <<pc, args, mp4s, chunkSt, value, exc, frame_dirs, runs,
                   failures, calls>>

\* The decoder has written every frame and exits 0: line 75, return out_dir.
DecoderExit(p, i) ==
    /\ At(p, i, "ffmpeg")
    /\ task[p][i].written = FrameCount(mp4s[p][i])
    /\ Return(p, i, OutDir(mp4s[p][i]))
    /\ UNCHANGED <<frames, pc, args, mp4s, exc, frame_dirs, runs, failures>>

\* The decoder exits non-zero, after any number of frames: check=True raises.
DecoderFail(p, i) ==
    /\ At(p, i, "ffmpeg")
    /\ failures < MaxFailures
    /\ failures' = failures + 1
    /\ Raise(p, i, OutDir(mp4s[p][i]))
    /\ UNCHANGED <<frames, pc, args, mp4s, frame_dirs, runs>>

\* A map that swallows the exception and returns what succeeded.
MapReturnPartial(p) ==
    /\ pc[p] = "map"
    /\ \A c \in 1..Len(chunkSt[p]) : chunkSt[p][c] = "done"
    /\ pc' = [pc EXCEPT ![p] = "done"]
    /\ frame_dirs' = [frame_dirs EXCEPT ![p] =
                        LET ok == SelectSeq(task[p], LAMBDA t : t.pc = "returned")
                        IN  [k \in 1..Len(ok) |-> ok[k].result]]
    /\ UNCHANGED <<frames, args, mp4s, task, chunkSt, value, exc, runs,
                   failures, calls>>

\* pool.map returns once every chunk has been handed back: the list, or the
\* stored exception, which ends main().
MapReturn(p) ==
    /\ pc[p] = "map"
    /\ \A c \in 1..Len(chunkSt[p]) : chunkSt[p][c] = "done"
    /\ IF exc[p] = NoExc
       THEN /\ pc' = [pc EXCEPT ![p] = "done"]
            /\ frame_dirs' = [frame_dirs EXCEPT ![p] = value[p]]
       ELSE /\ pc' = [pc EXCEPT ![p] = "failed"]
            /\ UNCHANGED frame_dirs
    /\ UNCHANGED <<frames, args, mp4s, task, chunkSt, value, exc, runs,
                   failures, calls>>

\* ------------------------------------------------------- specifications

MaxTasks == Len(find_videos(<<>>, "asc"))

\* The steps of the pool's workers while every decoder run succeeds.
Extract(p) ==
    \/ \E c \in 1..MaxTasks : TakeChunk(p, c)
    \/ \E i \in 1..MaxTasks : PathExists(p, i)
    \/ \E i \in 1..MaxTasks : IterDir(p, i)
    \/ \E i \in 1..MaxTasks : Mkdir(p, i)
    \/ \E i \in 1..MaxTasks : DecoderWrite(p, i)
    \/ \E i \in 1..MaxTasks : DecoderExit(p, i)

Worker(p) ==
    \/ Extract(p)
    \/ \E i \in 1..MaxTasks : DecoderFail(p, i)

\* One user, who runs the tool again and again.
Next ==
    \/ \E a \in UserArgs : Main(1, a, MaxRuns)
    \/ PoolMap(1)
    \/ Worker(1)
    \/ MapReturn(1)

Spec == Init /\ [][Next]_vars

\* One user, who tries every camera key and whose decoder never fails.
NextLocate ==
    \/ \E a \in LocateArgs : Main(1, a, MaxRuns)
    \/ PoolMap(1)
    \/ Extract(1)
    \/ MapReturn(1)

SpecLocate == Init /\ [][NextLocate]_vars

\* Two users, each running the tool once, at the same time.
NextRace ==
    \E p \in Procs :
        \/ \E a \in RaceArgs : Main(p, a, 1)
        \/ PoolMap(p)
        \/ Worker(p)
        \/ MapReturn(p)

SpecRace == Init /\ [][NextRace]_vars


\* ----------------------------------------------------------------- claims

\* What the file layout contract prescribes, written out.
FrameNames == <<"00000.jpg", "00001.jpg", "00002.jpg", "00003.jpg", "00004.jpg">>

ExpectedNames(k) == {FrameNames[i] : i \in 1..k}

Names(files) == {f.name : f \in files}

\* <camera dir>/episode_<M>_frames for <camera dir>/episode_<M>.mp4
FrameSetOf(mp4) ==
    Parent(mp4) \o <<SubSeq(Name(mp4), 1, Len(Name(mp4)) - 4) \o "_frames">>

\* The complete FrameSet of a video, decoded with one quality.
FullSet(mp4, quality) ==
    {[name |-> FrameNames[i], q |-> quality] : i \in 1..FrameCount(mp4)}

PhoneEpisodes ==
    { <<"videos", "chunk-000", "observation.images.phone", "episode_000000.mp4">>,
      <<"videos", "chunk-000", "observation.images.phone", "episode_000001.mp4">>,
      <<"videos", "chunk-001", "observation.images.phone", "episode_000002.mp4">>,
      <<"videos", "chunk-001", "observation.images.phone", "episode_000003.mp4">> }

LaptopEpisodes ==
    { <<"videos", "chunk-000", "observation.images.laptop", "episode_000000.mp4">> }

Range(s) == {s[i] : i \in 1..Len(s)}

\* C1: of two calls of extract on one Episode in sequence, the first of which
\* returned, the second returns too, invokes no decoder and leaves the
\* FrameSet as the first left it.
C1_Idempotent ==
    \A m \in FixturePaths : \A k \in 1..(Len(calls[m]) - 1) :
        calls[m][k].ok =>
            /\ calls[m][k + 1].ok
            /\ ~calls[m][k + 1].decoded
            /\ calls[m][k + 1].files = calls[m][k].files
            /\ calls[m][k + 1].dir = calls[m][k].dir

\* C1 witness: a call that decoded and returned, and a second call, of a run
\* with another quality, that did not decode.
C1_Witness ==
    \E m \in FixturePaths :
        /\ Len(calls[m]) >= 2
        /\ calls[m][1].ok /\ calls[m][1].decoded
        /\ calls[m][2].ok /\ ~calls[m][2].decoded
        /\ args[1].quality = 5
        /\ \E f \in calls[m][2].files : f.q = 2

\* C2: a run in which every extraction succeeded returns a list as long as
\* the input list whose i-th element is the FrameSet path of the i-th
\* Episode.
C2_InputOrder ==
    pc[1] = "done" =>
        /\ Len(frame_dirs[1]) = Len(mp4s[1])
        /\ Len(mp4s[1]) >= 1
        /\ \A i \in 1..Len(mp4s[1]) : frame_dirs[1][i] = FrameSetOf(mp4s[1][i])

\* C2 witness: a finished run of two workers over four Episodes.
C2_Witness ==
    /\ pc[1] = "done"
    /\ args[1].num_workers = 2
    /\ Len(frame_dirs[1]) = 4

\* C3: once the decoder of one Episode has exited non-zero, the run does not
\* end with a result list: it ends with the decoder's error and frame_dirs
\* is never bound.
C3_NoPartialList ==
    (\E i \in 1..Len(task[1]) : task[1][i].pc = "raised") =>
        /\ pc[1] # "done"
        /\ frame_dirs[1] = <<>>
        /\ exc[1].type = "CalledProcessError"
        /\ pc[1] = "map" => value[1] = <<>>

\* C3 witness: a run that ended with the decoder's error while another of
\* its Episodes was extracted in full.
C3_Witness ==
    /\ pc[1] = "failed"
    /\ exc[1].type = "CalledProcessError"
    /\ \E i \in 1..Len(task[1]) : task[1][i].pc = "raised"
    /\ \E i \in 1..Len(task[1]) : task[1][i].pc = "returned" /\ task[1][i].decoded
    /\ frame_dirs[1] = <<>>

\* C4: a run whose discovery yields no Episode ends with the fatal error
\* before the pool is started: no chunk, no worker call, no decoder, and in
\* a first run no frame directory on disk.
C4_EmptyDiscoveryFatal ==
    (pc[1] # "idle" /\ mp4s[1] = <<>>) =>
        /\ pc[1] = "failed"
        /\ exc[1].type = "RuntimeError"
        /\ task[1] = <<>>
        /\ chunkSt[1] = <<>>
        /\ frame_dirs[1] = <<>>
        /\ runs[1] = 1 => DOMAIN frames = {}

\* C4 witness: a first run with a camera no stream is named after.
C4_Witness ==
    /\ pc[1] = "failed"
    /\ exc[1].type = "RuntimeError"
    /\ args[1].camera = <<"wrist">>
    /\ runs[1] = 1

\* The Episode files of the data set that lie in a camera stream the key
\* includes.
IncludedEpisodes(camera_key) ==
    {q \in FixturePaths :
        /\ Len(q) = 4
        /\ q[1] = "videos"
        /\ StartsWith(q[2], "chunk-")
        /\ StartsWith(q[3], "observation.images.")
        /\ StartsWith(q[4], "episode_") /\ EndsWith(q[4], ".mp4")
        /\ camera_key # <<>> => EndsWith(q[3], camera_key[1])}

\* C5: the list holds exactly the Episode files of the included camera
\* streams, each once: those whose stream name ends with the key, every one
\* without a key; "phone" yields the phone stream's, None both streams'.
C5_Locate ==
    pc[1] # "idle" =>
        /\ Range(mp4s[1]) = IncludedEpisodes(args[1].camera)
        /\ Cardinality(Range(mp4s[1])) = Len(mp4s[1])
        /\ args[1].camera = <<"phone">> => Range(mp4s[1]) = PhoneEpisodes
        /\ args[1].camera = <<"laptop">> => Range(mp4s[1]) = LaptopEpisodes
        /\ args[1].camera = <<>> => Range(mp4s[1]) = PhoneEpisodes \cup LaptopEpisodes

\* C5 witness: the key "one" in a second run, with frame directories among
\* the entries, lists the phone stream's Episodes.
C5_Witness ==
    /\ pc[1] = "found"
    /\ args[1].camera = <<"one">>
    /\ args[1].listing = "desc"
    /\ Range(mp4s[1]) = PhoneEpisodes
    /\ DOMAIN frames # {}

\* C6: an extraction that ran the decoder and returned has left, in the
\* sibling directory episode_<M>_frames, exactly the files 00000.jpg ..
\* of the video's k frames.
C6_Naming ==
    \A m \in FixturePaths : \A k \in 1..Len(calls[m]) :
        (calls[m][k].ok /\ calls[m][k].decoded) =>
            /\ calls[m][k].dir = FrameSetOf(m)
            /\ Names(calls[m][k].files) = ExpectedNames(FrameCount(m))
            /\ Cardinality(calls[m][k].files) = FrameCount(m)
            /\ frames[FrameSetOf(m)] = calls[m][k].files

\* C6 witness: the video of three frames, extracted into a directory that
\* did not exist.
C6_Witness ==
    \E m \in FixturePaths :
        /\ FrameCount(m) = 3
        /\ Len(calls[m]) = 1
        /\ calls[m][1].ok /\ calls[m][1].decoded
        /\ Names(calls[m][1].files) = {"00000.jpg", "00001.jpg", "00002.jpg"}
        /\ calls[m][1].dir =
             <<"videos", "chunk-000", "observation.images.phone", "episode_000000_frames">>

BothDone == pc[1] = "done" /\ pc[2] = "done"

\* C7 as stated: once two concurrent invocations have both finished with
\* success, every FrameSet either reports is the complete one a single
\* invocation, of the one or of the other, would have produced.
C7_AsStated ==
    BothDone =>
        \A p \in Procs : \A i \in 1..Len(mp4s[p]) :
            /\ frame_dirs[p][i] = FrameSetOf(mp4s[p][i])
            /\ \E r \in Procs :
                  frames[frame_dirs[p][i]] = FullSet(mp4s[p][i], args[r].quality)

\* C7 amended: the same of two concurrent invocations run with the same
\* quality.
C7_SameQuality ==
    (BothDone /\ args[1].quality = args[2].quality) =>
        \A p \in Procs : \A i \in 1..Len(mp4s[p]) :
            /\ frame_dirs[p][i] = FrameSetOf(mp4s[p][i])
            /\ frames[frame_dirs[p][i]] = FullSet(mp4s[p][i], args[p].quality)

\* C7 witness: both invocations, of one quality, ran the decoder on the same
\* Episode and both finished.
C7_Witness ==
    /\ BothDone
    /\ args[1].quality = args[2].quality
    /\ mp4s[1] = mp4s[2]
    /\ \A p \in Procs : task[p][1].decoded

\* C8: a call whose decoder exited non-zero has left the directory with the
\* frames written until then; the next call of the same Episode runs the
\* decoder iff that directory was left empty, and else returns it untouched.
C8_FailureLeftInPlace ==
    \A m \in FixturePaths : \A k \in 1..Len(calls[m]) :
        ~calls[m][k].ok =>
            /\ calls[m][k].decoded
            /\ calls[m][k].dir = FrameSetOf(m)
            /\ Names(calls[m][k].files) = ExpectedNames(calls[m][k].written)
            /\ calls[m][k].dir \in DOMAIN frames
            /\ calls[m][k].files \subseteq frames[calls[m][k].dir]
            /\ k < Len(calls[m]) =>
                  /\ calls[m][k + 1].decoded <=> calls[m][k].files = {}
                  /\ calls[m][k].files # {} =>
                        /\ calls[m][k + 1].ok
                        /\ calls[m][k + 1].files = calls[m][k].files

\* C8 witness: a decoder that failed before its first frame, and the next
\* call, which ran the decoder again.
C8_Witness ==
    \E m \in FixturePaths :
        /\ Len(calls[m]) = 2
        /\ ~calls[m][1].ok /\ calls[m][1].files = {}
        /\ calls[m][2].ok /\ calls[m][2].decoded

\* C9 as stated, for a pool of one worker (where an extraction that starts
\* its decoder after a failure cannot have begun before it): once an
\* extraction of the run has failed, no decoder is started for an Episode
\* of the run.
C9_BatchAborted ==
    [][ ( /\ pc[1] = "map" /\ pc'[1] = "map"
          /\ args[1].num_workers = 1
          /\ \E j \in 1..Len(task[1]) : task[1][j].pc = "raised" )
        => \A i \in 1..Len(task[1]) : ~task[1][i].decoded => ~task'[1][i].decoded ]_vars

\* C10 as stated: every path in the result list of a run that ended with
\* success names a directory holding every frame of its Episode.
C10_ResultsComplete ==
    pc[1] = "done" =>
        \A i \in 1..Len(frame_dirs[1]) :
            Names(frames[frame_dirs[1][i]]) = ExpectedNames(FrameCount(mp4s[1][i]))

====
